---- MODULE Spec2Model ----
(***************************************************************************)
(* Book build pipeline of MarkEdit: the chapter resequencer of the file    *)
(* tree (static/common/js/common.js, reorderChapters) and the two build    *)
(* scripts (build-epub.js, src/build-pdf.js).                               *)
(***************************************************************************)
EXTENDS Integers, Sequences, FiniteSets, TLC

(***************************************************************************)
(* Bounds of the model.                                                    *)
(***************************************************************************)
MaxFiles == 3
MaxConfig == 2

(***************************************************************************)
(* JavaScript values.  Every value is a record so that values of           *)
(* different kinds are comparable.                                         *)
(***************************************************************************)
Undefined == [undefined |-> "undefined"]

\* Property names every plain object ({}) inherits from Object.prototype.
ObjectPrototypeKeys == {"constructor"}

\* The value found under an inherited property name: a built-in function.
Builtin(k) == [builtin |-> k]

\* Array-index property names ("0", "1", "2", ...) and their numeric value;
\* -1 for every other property name.
KeyIndex(k) == CASE k = "2" -> 2 [] k = "10" -> 10 [] OTHER -> -1

IsArrayIndex(k) == KeyIndex(k) >= 0

\* ToBoolean: objects and functions are truthy, undefined is falsy.
Truthy(v) == v # Undefined

(***************************************************************************)
(* A plain JavaScript object ({}): the sequence of its own properties in   *)
(* enumeration order (array-index names ascending by value, then the other *)
(* names in insertion order), each a pair [key, val].                      *)
(***************************************************************************)
EmptyObject == << >>

OwnKeys(obj) == {obj[i].key : i \in 1..Len(obj)}

OwnPos(obj, k) == CHOOSE i \in 1..Len(obj) : obj[i].key = k

\* Where a new own property named k is inserted in the enumeration order.
InsertPos(obj, k) ==
  IF IsArrayIndex(k)
  THEN 1 + Cardinality({i \in 1..Len(obj) :
                          IsArrayIndex(obj[i].key) /\ KeyIndex(obj[i].key) < KeyIndex(k)})
  ELSE Len(obj) + 1

\* obj[k] = v
ObjSet(obj, k, v) ==
  IF k \in OwnKeys(obj)
  THEN [obj EXCEPT ![OwnPos(obj, k)] = [key |-> k, val |-> v]]
  ELSE LET p == InsertPos(obj, k)
       IN SubSeq(obj, 1, p - 1) \o <<[key |-> k, val |-> v]>> \o SubSeq(obj, p, Len(obj))

\* obj[k]: own property first, then the prototype chain.
ObjGet(obj, k) ==
  IF k \in OwnKeys(obj) THEN obj[OwnPos(obj, k)].val
  ELSE IF k \in ObjectPrototypeKeys THEN Builtin(k)
  ELSE Undefined

\* delete obj[k]: removes an own property only.
ObjDelete(obj, k) ==
  IF k \in OwnKeys(obj)
  THEN LET p == OwnPos(obj, k) IN SubSeq(obj, 1, p - 1) \o SubSeq(obj, p + 1, Len(obj))
  ELSE obj

\* Object.values(obj)
ObjValues(obj) == [i \in 1..Len(obj) |-> obj[i].val]

\* {...v}: the own enumerable properties of v; a built-in function has none.
Spread(v) == IF "builtin" \in DOMAIN v THEN [k \in {} |-> ""] ELSE v

SetNameForgotten(o, title) == o

\* o.name = title
SetName(o, title) ==
  [k \in DOMAIN o \cup {"name"} |-> IF k = "name" THEN title ELSE o[k]]

(***************************************************************************)
(* reorderChapters(chapterFiles, chapterConfig)                            *)
(*                                                                         *)
(* Objects live on a heap, a sequence of objects addressed by position.    *)
(* The objects of the array chapterFiles are the first Len(chapterFiles)   *)
(* objects of the heap; fileMap and reorderedFiles hold references.        *)
(***************************************************************************)
Ref(a) == [ref |-> a]

IsRef(v) == "ref" \in DOMAIN v

RECURSIVE BuildFileMap(_, _, _)
BuildFileMap(chapterFiles, i, fileMap) ==
  IF i > Len(chapterFiles) THEN fileMap
  ELSE BuildFileMap(chapterFiles, i + 1,
         IF chapterFiles[i].type = "file"
         THEN ObjSet(fileMap, chapterFiles[i].name, Ref(i))
         ELSE fileMap)

CopyObjectAliased(heap, v) ==
  IF IsRef(v) THEN [heap |-> heap, ref |-> v.ref]
  ELSE [heap |-> Append(heap, Spread(v)), ref |-> Len(heap) + 1]

\* const file = {...fileMap[chapter.file]}: a new object on the heap.
CopyObject(heap, v) ==
  [heap |-> Append(heap, Spread(IF IsRef(v) THEN heap[v.ref] ELSE v)),
   ref |-> Len(heap) + 1]

RECURSIVE WalkConfig(_, _, _, _, _)
WalkConfig(chapterConfig, i, fileMap, reorderedFiles, heap) ==
  IF i > Len(chapterConfig)
  THEN [fileMap |-> fileMap, reorderedFiles |-> reorderedFiles, heap |-> heap]
  ELSE LET chapter == chapterConfig[i]
           found == ObjGet(fileMap, chapter.file)
       IN IF Truthy(found)
          THEN LET file == CopyObject(heap, found)
               IN WalkConfig(chapterConfig, i + 1,
                             ObjDelete(fileMap, chapter.file),
                             Append(reorderedFiles, Ref(file.ref)),
                             [file.heap EXCEPT ![file.ref] = SetName(@, chapter.title)])
          ELSE WalkConfig(chapterConfig, i + 1, fileMap, reorderedFiles, heap)

\* One call: the references returned and the heap the call leaves.
reorderChaptersCall(chapterFiles, chapterConfig) ==
  LET walked == WalkConfig(chapterConfig, 1,
                           BuildFileMap(chapterFiles, 1, EmptyObject), << >>,
                           chapterFiles)
  IN [returned |-> walked.reorderedFiles \o ObjValues(walked.fileMap),
      heap |-> walked.heap]

\* The array reorderChapters returns, each element shown as the object it
\* refers to.
reorderChapters(chapterFiles, chapterConfig) ==
  LET call == reorderChaptersCall(chapterFiles, chapterConfig)
  IN [i \in 1..Len(call.returned) |-> call.heap[call.returned[i].ref]]

\* The objects of the array chapterFiles as the call leaves them.
chapterFilesAfter(chapterFiles, chapterConfig) ==
  SubSeq(reorderChaptersCall(chapterFiles, chapterConfig).heap, 1, Len(chapterFiles))

(***************************************************************************)
(* Texts.  A text is a sequence of symbols; a symbol is either one of the  *)
(* characters the regular expressions of the build scripts single out      *)
(* (quote, '>', ';', ':', '=', '?', blank, newline, a digit) or a run of   *)
(* other characters that every regular expression treats as a unit         *)
(* ("<svg", "opacity", "illustrations", ...).                              *)
(***************************************************************************)
IsWhitespace(c) == c \in {" ", "\n"}

IsDigit(c) == c \in {"0", "1", "3", "4"}

\* text.substring(i - 1, i - 1 + Len(lit)) === lit
MatchesAt(text, i, lit) ==
  /\ i >= 1
  /\ i + Len(lit) - 1 <= Len(text)
  /\ SubSeq(text, i, i + Len(lit) - 1) = lit

\* text.includes(lit)
Includes(text, lit) == \E i \in 1..Len(text) : MatchesAt(text, i, lit)

\* text.replace(lit, rep) with a string pattern: the first occurrence only.
ReplaceFirst(text, lit, rep) ==
  IF Includes(text, lit)
  THEN LET i == CHOOSE k \in 1..Len(text) :
                   /\ MatchesAt(text, k, lit)
                   /\ \A m \in 1..(k - 1) : ~MatchesAt(text, m, lit)
       IN SubSeq(text, 1, i - 1) \o rep \o SubSeq(text, i + Len(lit), Len(text))
  ELSE text

\* text.replace(/lit/g, rep) for a pattern without operators: every
\* occurrence, scanning left to right, matches never overlapping.
RECURSIVE ReplaceAllFrom(_, _, _, _)
ReplaceAllFrom(text, i, lit, rep) ==
  IF i > Len(text) THEN << >>
  ELSE IF MatchesAt(text, i, lit)
       THEN rep \o ReplaceAllFrom(text, i + Len(lit), lit, rep)
       ELSE <<text[i]>> \o ReplaceAllFrom(text, i + 1, lit, rep)

ReplaceAllOnce(text, lit, rep) == ReplaceFirst(text, lit, rep)

ReplaceAll(text, lit, rep) == ReplaceAllFrom(text, 1, lit, rep)

\* Number of (non-overlapping, left to right) occurrences of lit in text.
RECURSIVE CountFrom(_, _, _)
CountFrom(text, i, lit) ==
  IF i > Len(text) THEN 0
  ELSE IF MatchesAt(text, i, lit)
       THEN 1 + CountFrom(text, i + Len(lit), lit)
       ELSE CountFrom(text, i + 1, lit)

\* The first position >= i whose symbol satisfies the set, or 0.
FirstIn(text, i, set) ==
  IF \E j \in i..Len(text) : text[j] \in set
  THEN CHOOSE j \in i..Len(text) :
         /\ text[j] \in set
         /\ \A m \in i..(j - 1) : text[m] \notin set
  ELSE 0

\* The first position >= i that is not whitespace (Len(text) + 1 if none).
SkipWhitespace(text, i) ==
  IF \E j \in i..Len(text) : ~IsWhitespace(text[j])
  THEN CHOOSE j \in i..Len(text) :
         /\ ~IsWhitespace(text[j])
         /\ \A m \in i..(j - 1) : IsWhitespace(text[m])
  ELSE Len(text) + 1

(***************************************************************************)
(* optimizeSvgForEpub(svgContent), build-epub.js                           *)
(***************************************************************************)
SvgOpen == <<"<svg">>
XmlnsAttr == <<"xmlns", "=", "\"", "http://www.w3.org/2000/svg", "\"">>
DefaultSize == <<" ", "width", "=", "\"", "4", "0", "0", "\"",
                 " ", "height", "=", "\"", "3", "0", "0", "\"">>

\* /<\?xml.*?\?>/ at position i: the end of the match, or 0.
PrologEnd(text, i) ==
  IF ~MatchesAt(text, i, <<"<?xml">>) THEN 0
  ELSE LET ends == {j \in (i + 1)..(Len(text) - 1) :
                      /\ text[j] = "?" /\ text[j + 1] = ">"
                      /\ \A m \in (i + 1)..(j - 1) : text[m] # "\n"}
       IN IF ends = {} THEN 0
          ELSE 1 + CHOOSE j \in ends : \A e \in ends : j <= e

\* .replace(/<\?xml.*?\?>/g, '')
RECURSIVE StripProlog(_, _)
StripProlog(text, i) ==
  IF i > Len(text) THEN << >>
  ELSE LET e == PrologEnd(text, i)
       IN IF e # 0 THEN StripProlog(text, e + 1)
          ELSE <<text[i]>> \o StripProlog(text, i + 1)

\* .match(/name="\d+"/)
HasNumericAttr(text, name) ==
  \E i \in 1..Len(text) : \E j \in (i + 4)..Len(text) :
    /\ MatchesAt(text, i, <<name, "=", "\"">>)
    /\ text[j] = "\""
    /\ \A m \in (i + 3)..(j - 1) : IsDigit(text[m])

\* (?<!width="[^"]*") fails at position j: the text before j ends in width="...".
WidthBehind(text, j) ==
  /\ j - 1 >= 1
  /\ text[j - 1] = "\""
  /\ \E k \in 1..(j - 4) :
       /\ MatchesAt(text, k, <<"width", "=", "\"">>)
       /\ \A m \in (k + 3)..(j - 2) : text[m] # "\""

\* /<svg([^>]*?)(?<!width="[^"]*")>/ starting at position i: the position of
\* the closing '>', or 0.
SvgTagEndOfAnyTag(text, i) ==
  LET j == FirstIn(text, i, {">"})
  IN IF j # 0 /\ ~WidthBehind(text, j) THEN j ELSE 0

SvgTagEnd(text, i) ==
  IF ~MatchesAt(text, i, SvgOpen) THEN 0
  ELSE LET j == FirstIn(text, i + 1, {">"})
       IN IF j # 0 /\ ~WidthBehind(text, j) THEN j ELSE 0

\* .replace(/<svg([^>]*?)(?<!width="[^"]*")>/, '<svg$1 width="400" height="300">')
InjectSize(text) ==
  LET starts == {i \in 1..Len(text) : SvgTagEnd(text, i) # 0}
  IN IF starts = {} THEN text
     ELSE LET i == CHOOSE s \in starts : \A o \in starts : s <= o
              j == SvgTagEnd(text, i)
          IN SubSeq(text, 1, j - 1) \o DefaultSize \o SubSeq(text, j, Len(text))

\* opacity\s*=\s*"[^"]*" with the word opacity at position i: the end of the
\* match, or 0.
OpacityAttrEnd(text, i) ==
  IF ~MatchesAt(text, i, <<"opacity">>) THEN 0
  ELSE LET e == SkipWhitespace(text, i + 1)
       IN IF e > Len(text) \/ text[e] # "=" THEN 0
          ELSE LET q == SkipWhitespace(text, e + 1)
               IN IF q > Len(text) \/ text[q] # "\"" THEN 0
                  ELSE FirstIn(text, q + 1, {"\""})

\* /\s+opacity\s*=\s*"[^"]*"/ starting at position i: the end of the match, or 0.
SpacedOpacityAttrEnd(text, i) ==
  IF i > Len(text) \/ ~IsWhitespace(text[i]) THEN 0
  ELSE OpacityAttrEnd(text, SkipWhitespace(text, i))

\* .replace(/\s+opacity\s*=\s*"[^"]*"/g, '')
RECURSIVE StripSpacedOpacity(_, _)
StripSpacedOpacity(text, i) ==
  IF i > Len(text) THEN << >>
  ELSE LET e == SpacedOpacityAttrEnd(text, i)
       IN IF e # 0 THEN StripSpacedOpacity(text, e + 1)
          ELSE <<text[i]>> \o StripSpacedOpacity(text, i + 1)

\* .replace(/opacity\s*=\s*"[^"]*"/g, '')
RECURSIVE StripOpacity(_, _)
StripOpacity(text, i) ==
  IF i > Len(text) THEN << >>
  ELSE LET e == OpacityAttrEnd(text, i)
       IN IF e # 0 THEN StripOpacity(text, e + 1)
          ELSE <<text[i]>> \o StripOpacity(text, i + 1)

\* /opacity\s*:\s*[^;]+;?/ with the word opacity at position i: the end of
\* the match, or 0.
OpacityStyleEnd(text, i) ==
  IF ~MatchesAt(text, i, <<"opacity">>) THEN 0
  ELSE LET c == SkipWhitespace(text, i + 1)
       IN IF c > Len(text) \/ text[c] # ":" THEN 0
          ELSE IF c + 1 > Len(text) \/ text[c + 1] = ";" THEN 0
          ELSE LET s == FirstIn(text, c + 1, {";"})
               IN IF s = 0 THEN Len(text) ELSE s

\* match.replace(/opacity\s*:\s*[^;]+;?/g, '')
RECURSIVE StripOpacityStyle(_, _)
StripOpacityStyle(text, i) ==
  IF i > Len(text) THEN << >>
  ELSE LET e == OpacityStyleEnd(text, i)
       IN IF e # 0 THEN StripOpacityStyle(text, e + 1)
          ELSE <<text[i]>> \o StripOpacityStyle(text, i + 1)

\* /<style[^>]*>[\s\S]*?<\/style>/ starting at position i: the end of the
\* match, or 0.
StyleBlockEnd(text, i) ==
  IF ~MatchesAt(text, i, <<"<style">>) THEN 0
  ELSE LET g == FirstIn(text, i + 1, {">"})
       IN IF g = 0 THEN 0
          ELSE LET ends == {j \in (g + 1)..Len(text) : MatchesAt(text, j, <<"</style", ">">>)}
               IN IF ends = {} THEN 0
                  ELSE 1 + CHOOSE j \in ends : \A e \in ends : j <= e

\* .replace(/<style[^>]*>[\s\S]*?<\/style>/g, match => ...)
RECURSIVE StripStyleBlocks(_, _)
StripStyleBlocks(text, i) ==
  IF i > Len(text) THEN << >>
  ELSE LET e == StyleBlockEnd(text, i)
       IN IF e # 0
          THEN StripOpacityStyle(SubSeq(text, i, e), 1) \o StripStyleBlocks(text, e + 1)
          ELSE <<text[i]>> \o StripStyleBlocks(text, i + 1)

optimizeSvgForEpub(svgContent) ==
  LET withXmlns == IF ~Includes(svgContent, XmlnsAttr)
                   THEN ReplaceFirst(svgContent, SvgOpen, SvgOpen \o <<" ">> \o XmlnsAttr)
                   ELSE svgContent
      noProlog == StripProlog(withXmlns, 1)
      sized == IF ~HasNumericAttr(noProlog, "width") \/ ~HasNumericAttr(noProlog, "height")
               THEN InjectSize(noProlog)
               ELSE noProlog
      noAttr == IF Includes(sized, <<"opacity">>)
                THEN StripOpacity(StripSpacedOpacity(sized, 1), 1)
                ELSE sized
  IN StripStyleBlocks(noAttr, 1)

(***************************************************************************)
(* The path rewriting of the chapter staging loops.                        *)
(***************************************************************************)
AssetPattern == <<".", ".", "/", "illustrations", "/">>

\* The replacement of each build: 'illustrations/' and './illustrations/'.
TargetFormUnrewritten(k) == <<".", ".", "/", "illustrations", "/">>

TargetForm(k) ==
  IF k = "epub" THEN <<"illustrations", "/">> ELSE <<".", "/", "illustrations", "/">>

rewriteForEpubLoose(content) == ReplaceAll(content, <<".", ".", "/">>, << >>)

\* build-epub.js: content.replace(/\.\.\/illustrations\//g, 'illustrations/')
rewriteForEpub(content) == ReplaceAll(content, AssetPattern, TargetForm("epub"))

\* src/build-pdf.js: content.replace(/\.\.\/illustrations\//g, './illustrations/')
rewriteForPdf(content) == ReplaceAll(content, AssetPattern, TargetForm("pdf"))

(***************************************************************************)
(* The build scripts: build-epub.js ("epub"), src/build-pdf.js ("pdf") and *)
(* the build-pdf.js variant without chapter staging ("pdf0").  Each runs   *)
(* as a Node.js process; a step is one file-system call, one converter     *)
(* call or one loop iteration.                                             *)
(***************************************************************************)
MaxChapters == 3

Procs == {"p1", "p2"}

Kinds == {"epub", "pdf", "pdf0"}

\* The chapter list compiled into the scripts.
CanonicalChapters ==
  << "01-introduction.md", "02-katakana-basics.md", "03-readings-and-meanings.md",
     "04-daily-expressions.md", "05-classical-stories.md", "07-scenic-spots.md",
     "06-poetry-and-rhythm.md", "08-cultural-heritage.md", "09-music-and-anime.md" >>

\* The first MaxChapters entries of the compiled-in list.
chapterFiles == SubSeq(CanonicalChapters, 1, MaxChapters)

srcDir == <<"src">>
chaptersDir == srcDir \o <<"chapters">>
buildDirPath == <<"build">>
metadataFile == srcDir \o <<"metadata.yml">>
bookFile == srcDir \o <<"book.md">>

\* path.join(buildDir, 'temp-chapters') / path.join(buildDir, 'temp-chapters-pdf')
tempChaptersDir(k) ==
  buildDirPath \o <<IF k = "epub" THEN "temp-chapters" ELSE "temp-chapters-pdf">>

\* path.extname(file)
ExtNameIgnored(file) == ".svg"

ExtName(file) ==
  CASE file \in {"fig.svg", "logo.svg"} -> ".svg"
    [] file = "notes.txt" -> ".txt"
    [] OTHER -> ""

\* A directory: whether it exists and the text of each of its files.
NoFiles == [n \in {} |-> << >>]
NoDir == [exists |-> FALSE, files |-> NoFiles]
EmptyDir == [exists |-> TRUE, files |-> NoFiles]

\* fs.writeFileSync / fs.copyFileSync into an existing directory.
WriteFile(dir, name, text) ==
  [dir EXCEPT !.files = [n \in (DOMAIN dir.files) \cup {name} |->
                           IF n = name THEN text ELSE dir.files[n]]]

\* fs.readdirSync: the names of a directory in the order the listing gives.
ListingOrder == <<"fig.svg", "logo.svg", "notes.txt">>
ReadDir(dir) == SelectSeq(ListingOrder, LAMBDA n : n \in DOMAIN dir.files)

\* The source texts the model runs on.
SvgSource(name) ==
  IF name = "fig.svg"
  THEN <<"<svg", ">", "<g", " ", "opacity", "=", "\"", "0", "\"", ">", "</svg", ">">>
  ELSE <<"<svg", " ", "width", "=", "\"", "1", "\"", " ", "height", "=", "\"", "1", "\"", ">",
         "</svg", ">">>

ChapterSource(file) ==
  IF file = chapterFiles[1]
  THEN <<"!", "[", "]", "(", ".", ".", "/", "illustrations", "/", "fig.svg", ")">>
  ELSE <<"#", " ", file>>

IllustrationSources ==
  [exists |-> TRUE,
   files |-> [n \in {"fig.svg", "logo.svg", "notes.txt"} |->
                IF ExtName(n) = ".svg" THEN SvgSource(n) ELSE <<"notes">>]]

\* The file objects the file tree holds for the chapters directory.
FileObject(name) ==
  [name |-> name, type |-> "file", path |-> "src/chapters/" \o name]

DirObject(name) ==
  [name |-> name, type |-> "directory", path |-> "src/chapters/" \o name]

VARIABLES
  pc,                 \* where each process is in its script
  kind,               \* which script each process runs
  idx,                \* the loop index of the forEach a process is in
  illustrationFiles,  \* the listing fs.readdirSync returned to a process
  invoked,            \* the converter calls of a process, with their outcome
  written,            \* the artifacts a process has written
  rmCount,            \* how often a process removed its temporary directory
  exitStatus,         \* "running", "ok", "exit1", "uncaught"
  thrownAt,           \* the step at which an exception left the script
  srcIllustrations,   \* src/illustrations
  srcChapters,        \* src/chapters: the readable chapter files
  buildDir,           \* whether build/ exists
  buildIllustrations, \* build/illustrations
  tempChapters,       \* build/temp-chapters and build/temp-chapters-pdf
  outputs,            \* the artifacts present under build/
  chapterConfig,      \* the ordering configuration (/api/admin/chapter-config)
  fetchedChildren,    \* the objects of the array /api/files returned for chapters
  children,           \* chaptersDir.children of the file tree
  treeLoaded,         \* whether loadFileTree has reordered the children
  svgContents,        \* an illustration's text: as read, then after each sanitizing pass
  chapter,            \* a source chapter: its file name and its text
  stagedChapter,      \* the staged copy of that chapter, per kind of build
  performed,          \* the file operations of the staging loops a process has completed
  requests,           \* the build requests buildBook has sent, with their state
  message             \* what showMessage displayed last

procVars == <<pc, kind, idx, illustrationFiles, invoked, written, rmCount,
              exitStatus, thrownAt, performed>>
srcVars == <<srcIllustrations, srcChapters, chapterConfig>>
fsVars == <<buildDir, buildIllustrations, tempChapters, outputs>>
treeVars == <<fetchedChildren, children, treeLoaded>>
textVars == <<svgContents, chapter, stagedChapter>>
uiVars == <<requests, message>>
vars == <<procVars, srcVars, fsVars, treeVars, textVars, uiVars>>

(***************************************************************************)
(* Initial state: a fresh checkout, no build/ directory, no process        *)
(* running.  The sources may lack the illustrations directory or one       *)
(* chapter file.                                                           *)
(***************************************************************************)
ChapterNames == {chapterFiles[i] : i \in 1..Len(chapterFiles)}

SeqsUpTo(S, n) == UNION {[1..m -> S] : m \in 0..n}

\* The ordering configurations the builds run under: none, the compiled-in
\* order, and one that moves the last chapter to the front.
BuildConfigs ==
  { << >>,
    [i \in 1..Len(chapterFiles) |-> [title |-> "T", file |-> chapterFiles[i]]],
    << [title |-> "T", file |-> chapterFiles[Len(chapterFiles)]] >> }

IdleProcs ==
  /\ pc = [p \in Procs |-> "idle"]
  /\ kind = [p \in Procs |-> "epub"]
  /\ idx = [p \in Procs |-> 1]
  /\ illustrationFiles = [p \in Procs |-> << >>]
  /\ invoked = [p \in Procs |-> << >>]
  /\ written = [p \in Procs |-> {}]
  /\ rmCount = [p \in Procs |-> 0]
  /\ exitStatus = [p \in Procs |-> "running"]
  /\ thrownAt = [p \in Procs |-> "none"]
  /\ performed = [p \in Procs |-> {}]

FreshBuildTree ==
  /\ buildDir = FALSE
  /\ buildIllustrations = NoDir
  /\ tempChapters = [k \in {"epub", "pdf"} |-> NoDir]
  /\ outputs = {}

\* The admin page as loaded: no build requested, nothing displayed.
NoRequests ==
  /\ requests = << >>
  /\ message = "none"

\* The texts the scripts work on, as the sources of the checkout hold them.
SourceTexts ==
  /\ svgContents = <<SvgSource("fig.svg")>>
  /\ chapter = [file |-> chapterFiles[1], content |-> ChapterSource(chapterFiles[1])]
  /\ stagedChapter = << >>

Init ==
  /\ IdleProcs
  /\ FreshBuildTree
  /\ srcIllustrations \in {NoDir, IllustrationSources}
  /\ \E missing \in SUBSET ChapterNames :
       /\ Cardinality(missing) <= 1
       /\ srcChapters = [f \in ChapterNames \ missing |-> ChapterSource(f)]
  /\ chapterConfig \in BuildConfigs
  /\ fetchedChildren = [i \in 1..Len(chapterFiles) |-> FileObject(chapterFiles[i])]
  /\ children = fetchedChildren
  /\ treeLoaded = FALSE
  /\ SourceTexts
  /\ NoRequests

(***************************************************************************)
(* Steps of the scripts.                                                   *)
(***************************************************************************)
\* An exception thrown outside every try block: Node.js prints it and the
\* process ends; nothing after the throwing statement runs.
OnUncaughtContinue(at) == IF at = "rewrite" THEN "pandoc" ELSE "exited"

OnUncaught(at) == "exited"

Throw(p, at) ==
  /\ pc' = [pc EXCEPT ![p] = OnUncaught(at)]
  /\ thrownAt' = [thrownAt EXCEPT ![p] = at]
  /\ exitStatus' = [exitStatus EXCEPT ![p] = IF OnUncaught(at) = "exited" THEN "uncaught" ELSE @]

Goto(p, label) ==
  /\ pc' = [pc EXCEPT ![p] = label]
  /\ UNCHANGED <<thrownAt, exitStatus>>

\* node build-epub.js / node build-pdf.js
Start(p, k) ==
  /\ pc[p] \in {"idle", "exited"}
  /\ pc' = [pc EXCEPT ![p] = "mkdirBuild"]
  /\ kind' = [kind EXCEPT ![p] = k]
  /\ idx' = [idx EXCEPT ![p] = 1]
  /\ illustrationFiles' = [illustrationFiles EXCEPT ![p] = << >>]
  /\ invoked' = [invoked EXCEPT ![p] = << >>]
  /\ written' = [written EXCEPT ![p] = {}]
  /\ rmCount' = [rmCount EXCEPT ![p] = 0]
  /\ exitStatus' = [exitStatus EXCEPT ![p] = "running"]
  /\ thrownAt' = [thrownAt EXCEPT ![p] = "none"]
  /\ performed' = [performed EXCEPT ![p] = {}]
  /\ UNCHANGED <<srcVars, fsVars, treeVars, textVars, uiVars>>

\* if (!fs.existsSync(buildDir)) fs.mkdirSync(buildDir, { recursive: true })
MkdirBuild(p) ==
  /\ pc[p] = "mkdirBuild"
  /\ buildDir' = TRUE
  /\ Goto(p, IF kind[p] = "pdf0" THEN "pandoc" ELSE "mkdirIllustrations")
  /\ UNCHANGED <<kind, performed, idx, illustrationFiles, invoked, written, rmCount,
                 srcVars, buildIllustrations, tempChapters, outputs, treeVars, textVars, uiVars>>

\* if (!fs.existsSync(buildIllustrationsDir)) fs.mkdirSync(..., { recursive: true })
MkdirIllustrations(p) ==
  /\ pc[p] = "mkdirIllustrations"
  /\ buildDir' = TRUE
  /\ buildIllustrations' = [buildIllustrations EXCEPT !.exists = TRUE]
  /\ Goto(p, "readdir")
  /\ UNCHANGED <<kind, performed, idx, illustrationFiles, invoked, written, rmCount,
                 srcVars, tempChapters, outputs, treeVars, textVars, uiVars>>

\* The step after the copy loop: the EPUB script optimizes the staged SVGs.
AfterCopySkippingOptimize(k, listing) == "mkdirTemp"

AfterCopy(k, listing) ==
  IF k = "epub" /\ Len(listing) > 0 THEN "optimize" ELSE "mkdirTemp"

\* const illustrationFiles = fs.readdirSync(illustrationsDir)
ReadIllustrations(p) ==
  /\ pc[p] = "readdir"
  /\ IF ~srcIllustrations.exists
     THEN /\ Throw(p, "readdir")
          /\ UNCHANGED <<idx, illustrationFiles>>
     ELSE LET listing == ReadDir(srcIllustrations)
          IN /\ illustrationFiles' = [illustrationFiles EXCEPT ![p] = listing]
             /\ idx' = [idx EXCEPT ![p] = 1]
             /\ Goto(p, IF Len(listing) > 0 THEN "copy" ELSE AfterCopy(kind[p], listing))
  /\ UNCHANGED <<kind, performed, invoked, written, rmCount, srcVars, fsVars, treeVars, textVars, uiVars>>

\* One iteration of illustrationFiles.forEach(file => { if (.svg) copyFileSync })
CopyIllustration(p) ==
  /\ pc[p] = "copy"
  /\ LET file == illustrationFiles[p][idx[p]]
         last == idx[p] = Len(illustrationFiles[p])
     IN IF ExtName(file) = ".svg"
           /\ (file \notin DOMAIN srcIllustrations.files \/ ~buildIllustrations.exists)
        THEN /\ Throw(p, "copy")
             /\ UNCHANGED <<idx, buildIllustrations, performed>>
        ELSE /\ buildIllustrations' =
                  IF ExtName(file) = ".svg"
                  THEN WriteFile(buildIllustrations, file, srcIllustrations.files[file])
                  ELSE buildIllustrations
             /\ performed' =
                  IF ExtName(file) = ".svg"
                  THEN [performed EXCEPT ![p] = @ \cup {[op |-> "copy", file |-> file]}]
                  ELSE performed
             /\ idx' = [idx EXCEPT ![p] = IF last THEN 1 ELSE @ + 1]
             /\ Goto(p, IF last THEN AfterCopy(kind[p], illustrationFiles[p]) ELSE "copy")
  /\ UNCHANGED <<kind, illustrationFiles, invoked, written, rmCount,
                 srcVars, buildDir, tempChapters, outputs, treeVars, textVars, uiVars>>

svgPathInSource == "src"

\* const svgPath = path.join(buildIllustrationsDir, file): the directory
\* the optimize loop reads from and writes back to.
svgPathDir == "build"

\* One iteration of illustrationFiles.forEach(file => { if (.svg) optimize })
OptimizeIllustration(p) ==
  /\ pc[p] = "optimize"
  /\ LET file == illustrationFiles[p][idx[p]]
         last == idx[p] = Len(illustrationFiles[p])
         dir == IF svgPathDir = "build" THEN buildIllustrations ELSE srcIllustrations
         optimized == IF ExtName(file) = ".svg"
                      THEN WriteFile(dir, file, optimizeSvgForEpub(dir.files[file]))
                      ELSE dir
     IN IF ExtName(file) = ".svg" /\ file \notin DOMAIN dir.files
        THEN /\ Throw(p, "optimize")
             /\ UNCHANGED <<idx, buildIllustrations, srcIllustrations, performed>>
        ELSE /\ IF svgPathDir = "build"
                THEN buildIllustrations' = optimized /\ UNCHANGED srcIllustrations
                ELSE srcIllustrations' = optimized /\ UNCHANGED buildIllustrations
             /\ performed' =
                  IF ExtName(file) = ".svg"
                  THEN [performed EXCEPT ![p] = @ \cup {[op |-> "optimize", file |-> file]}]
                  ELSE performed
             /\ idx' = [idx EXCEPT ![p] = IF last THEN 1 ELSE @ + 1]
             /\ Goto(p, IF last THEN "mkdirTemp" ELSE "optimize")
  /\ UNCHANGED <<kind, illustrationFiles, invoked, written, rmCount,
                 srcChapters, chapterConfig, buildDir, tempChapters, outputs,
                 treeVars, textVars, uiVars>>

\* if (!fs.existsSync(tempChaptersDir)) fs.mkdirSync(tempChaptersDir, { recursive: true })
MkdirTemp(p) ==
  /\ pc[p] = "mkdirTemp"
  /\ buildDir' = TRUE
  /\ tempChapters' = [tempChapters EXCEPT ![kind[p]].exists = TRUE]
  /\ idx' = [idx EXCEPT ![p] = 1]
  /\ Goto(p, "rewrite")
  /\ UNCHANGED <<kind, performed, illustrationFiles, invoked, written, rmCount,
                 srcVars, buildIllustrations, outputs, treeVars, textVars, uiVars>>

\* The rewriting each script applies to a chapter text.
Rewrite(k, content) == IF k = "epub" THEN rewriteForEpub(content) ELSE rewriteForPdf(content)

\* One iteration of chapterFiles.forEach(file => { read, replace, write })
RewriteChapter(p) ==
  /\ pc[p] = "rewrite"
  /\ LET file == chapterFiles[idx[p]]
         last == idx[p] = Len(chapterFiles)
     IN IF file \notin DOMAIN srcChapters \/ ~tempChapters[kind[p]].exists
        THEN /\ Throw(p, "rewrite")
             /\ UNCHANGED <<idx, tempChapters, performed>>
        ELSE /\ tempChapters' =
                  [tempChapters EXCEPT ![kind[p]] =
                     WriteFile(@, file, Rewrite(kind[p], srcChapters[file]))]
             /\ performed' = [performed EXCEPT ![p] = @ \cup {[op |-> "rewrite", file |-> file]}]
             /\ idx' = [idx EXCEPT ![p] = IF last THEN 1 ELSE @ + 1]
             /\ Goto(p, IF last THEN "pandoc" ELSE "rewrite")
  /\ UNCHANGED <<kind, illustrationFiles, invoked, written, rmCount,
                 srcVars, buildDir, buildIllustrations, outputs, treeVars, textVars, uiVars>>

inputFilesByConfig(k) ==
  LET ordered == reorderChapters([i \in 1..Len(chapterFiles) |-> FileObject(chapterFiles[i])],
                                 chapterConfig)
  IN <<metadataFile, bookFile>> \o
     [i \in 1..Len(ordered) |->
        (IF k = "pdf0" THEN chaptersDir ELSE tempChaptersDir(k))
          \o <<CHOOSE f \in ChapterNames : FileObject(f).path = ordered[i].path>>]

\* [metadataFile, bookFile, ...chapterFiles.map(file => path.join(dir, file))]
inputFiles(k) ==
  <<metadataFile, bookFile>> \o
  [i \in 1..Len(chapterFiles) |->
     (IF k = "pdf0" THEN chaptersDir ELSE tempChaptersDir(k)) \o <<chapterFiles[i]>>]

\* Whether every chapter file named on the pandoc command line can be read.
InputsReadable(k) ==
  \A i \in 1..Len(chapterFiles) :
    IF k = "pdf0" THEN chapterFiles[i] \in DOMAIN srcChapters
    ELSE tempChapters[k].exists /\ chapterFiles[i] \in DOMAIN tempChapters[k].files

\* The artifact pandoc writes ('-o', outputFilePath / htmlOutputPath).
PandocOutput(k) == IF k = "epub" THEN "katakana-dictionary.epub" ELSE "katakana-dictionary.html"

PdfOutput == "katakana-dictionary.pdf"

\* `--resource-path=${buildDir}`: where pandoc looks up the resources the
\* chapters refer to.
resourcePath == buildDirPath

\* execSync returns when the command exits with status 0 and throws when it
\* exits non-zero or cannot be started.
ConverterResults == {"ok", "nonzero", "notfound"}

AfterPandocIgnoringExit(k, result) ==
  IF k = "epub" THEN "finally" ELSE "wkhtmltopdf"

\* Where the try block goes after execSync(pandoc ...).
AfterPandoc(k, result) ==
  IF result = "ok" THEN (IF k = "epub" THEN "finally" ELSE "wkhtmltopdf") ELSE "catch"

\* Where the try block goes after execSync(wkhtmltopdf ...).
AfterWkhtmltopdf(k, result) ==
  IF result = "ok" THEN (IF k = "pdf" THEN "finally" ELSE "exited") ELSE "catch"

\* catch (error) { console.error(...); process.exit(1); }: the process ends
\* inside the catch block, before any finally block.
AfterCatchWithoutExit(k) == IF k = "pdf0" THEN "exited" ELSE "finally"

AfterCatch(k) == "exited"

\* The status a process ends with when it arrives at the given step.
Arrive(p, label, status) ==
  /\ pc' = [pc EXCEPT ![p] = label]
  /\ exitStatus' = [exitStatus EXCEPT ![p] = IF label = "exited" THEN status ELSE @]
  /\ UNCHANGED thrownAt

\* execSync(command) with the pandoc command line
Pandoc(p, result) ==
  /\ pc[p] = "pandoc"
  /\ result = "ok" => InputsReadable(kind[p])
  /\ invoked' = [invoked EXCEPT ![p] =
                   Append(@, [tool |-> "pandoc", inputs |-> inputFiles(kind[p]),
                              result |-> result])]
  /\ IF result = "ok"
     THEN /\ outputs' = outputs \cup {PandocOutput(kind[p])}
          /\ written' = [written EXCEPT ![p] = @ \cup {PandocOutput(kind[p])}]
     ELSE UNCHANGED <<outputs, written>>
  /\ Arrive(p, AfterPandoc(kind[p], result), "ok")
  /\ UNCHANGED <<kind, performed, idx, illustrationFiles, rmCount, srcVars,
                 buildDir, buildIllustrations, tempChapters, treeVars, textVars, uiVars>>

\* execSync(wkhtmltopdfCommand)
Wkhtmltopdf(p, result) ==
  /\ pc[p] = "wkhtmltopdf"
  /\ result = "ok" => PandocOutput(kind[p]) \in outputs
  /\ invoked' = [invoked EXCEPT ![p] =
                   Append(@, [tool |-> "wkhtmltopdf",
                              inputs |-> <<buildDirPath \o <<PandocOutput(kind[p])>> >>,
                              result |-> result])]
  /\ IF result = "ok"
     THEN /\ outputs' = outputs \cup {PdfOutput}
          /\ written' = [written EXCEPT ![p] = @ \cup {PdfOutput}]
     ELSE UNCHANGED <<outputs, written>>
  /\ Arrive(p, AfterWkhtmltopdf(kind[p], result), "ok")
  /\ UNCHANGED <<kind, performed, idx, illustrationFiles, rmCount, srcVars,
                 buildDir, buildIllustrations, tempChapters, treeVars, textVars, uiVars>>

\* catch (error) { console.error(..., error.message); process.exit(1); }
Catch(p) ==
  /\ pc[p] = "catch"
  /\ Arrive(p, AfterCatch(kind[p]), "exit1")
  /\ UNCHANGED <<kind, performed, idx, illustrationFiles, invoked, written, rmCount,
                 srcVars, fsVars, treeVars, textVars, uiVars>>

\* finally { if (fs.existsSync(tempChaptersDir)) ...
FinallyCheck(p) ==
  /\ pc[p] = "finally"
  /\ Arrive(p, IF tempChapters[kind[p]].exists THEN "rm" ELSE "exited", "ok")
  /\ UNCHANGED <<kind, performed, idx, illustrationFiles, invoked, written, rmCount,
                 srcVars, fsVars, treeVars, textVars, uiVars>>

\* ... fs.rmSync(tempChaptersDir, { recursive: true }) }
FinallyRm(p) ==
  /\ pc[p] = "rm"
  /\ IF ~tempChapters[kind[p]].exists
     THEN /\ Throw(p, "rm")
          /\ UNCHANGED <<tempChapters, rmCount>>
     ELSE /\ tempChapters' = [tempChapters EXCEPT ![kind[p]] = NoDir]
          /\ rmCount' = [rmCount EXCEPT ![p] = @ + 1]
          /\ Arrive(p, "exited", "ok")
  /\ UNCHANGED <<kind, performed, idx, illustrationFiles, invoked, written,
                 srcVars, buildDir, buildIllustrations, outputs, treeVars, textVars, uiVars>>

Next ==
  \/ \E p \in Procs : \E k \in Kinds : Start(p, k)
  \/ \E p \in Procs : MkdirBuild(p)
  \/ \E p \in Procs : MkdirIllustrations(p)
  \/ \E p \in Procs : ReadIllustrations(p)
  \/ \E p \in Procs : CopyIllustration(p)
  \/ \E p \in Procs : OptimizeIllustration(p)
  \/ \E p \in Procs : MkdirTemp(p)
  \/ \E p \in Procs : RewriteChapter(p)
  \/ \E p \in Procs : \E result \in ConverterResults : Pandoc(p, result)
  \/ \E p \in Procs : \E result \in ConverterResults : Wkhtmltopdf(p, result)
  \/ \E p \in Procs : Catch(p)
  \/ \E p \in Procs : FinallyCheck(p)
  \/ \E p \in Procs : FinallyRm(p)

Spec == Init /\ [][Next]_vars

(***************************************************************************)
(* loadFileTree: the chapters directory of the file tree is reordered by   *)
(* the ordering configuration.                                             *)
(***************************************************************************)
\* File and directory names a chapters directory may hold, and the names an
\* ordering configuration may mention ("old.md" is in no directory).
TreeNames == {"a.md", "b.md", "c.md", "2", "constructor", "drafts"}
ConfigNames == (TreeNames \ {"drafts"}) \cup {"old.md"}
Titles == {"B", "T"}

TreeObject(name) == IF name = "drafts" THEN DirObject(name) ELSE FileObject(name)

\* Directory listings: no name twice.
Listings(n) ==
  {[i \in 1..Len(names) |-> TreeObject(names[i])] :
     names \in {q \in SeqsUpTo(TreeNames, n) :
                  \A i, j \in 1..Len(q) : i # j => q[i] # q[j]}}

TreeConfigs == SeqsUpTo([title : Titles, file : ConfigNames], MaxConfig)

InitTree ==
  /\ IdleProcs
  /\ FreshBuildTree
  /\ srcIllustrations = IllustrationSources
  /\ srcChapters = [f \in ChapterNames |-> ChapterSource(f)]
  /\ chapterConfig \in TreeConfigs
  /\ fetchedChildren \in Listings(MaxFiles)
  /\ children = fetchedChildren
  /\ treeLoaded = FALSE
  /\ SourceTexts
  /\ NoRequests

\* chaptersDir.children = reorderChapters(chaptersDir.children, chapterConfig.chapters)
LoadFileTree ==
  /\ ~treeLoaded
  /\ children' = reorderChapters(fetchedChildren, chapterConfig)
  /\ fetchedChildren' = chapterFilesAfter(fetchedChildren, chapterConfig)
  /\ treeLoaded' = TRUE
  /\ UNCHANGED <<procVars, srcVars, fsVars, textVars, uiVars>>

NextTree == LoadFileTree

SpecTree == InitTree /\ [][NextTree]_vars

(***************************************************************************)
(* optimizeSvgForEpub on its own: an illustration text built from the      *)
(* pieces SVG files are made of, sanitized pass after pass.                *)
(***************************************************************************)
MaxParts == 4
MaxPasses == 2

PartSvgOpen == SvgOpen
PartTagClose == <<">">>
PartSize == <<" ", "width", "=", "\"", "1", "\"", " ", "height", "=", "\"", "1", "\"">>
PartOpacity == <<" ", "opacity", "=", "\"", "1", "\"">>
PartXmlns == <<" ">> \o XmlnsAttr
PartStyleAttr == <<" ", "style", "=", "\"", "opacity", ":", "1", "\"">>
PartPrologOpen == <<"<?xml">>
PartPrologClose == <<"?", ">">>
PartStyleRule == <<"<style", ">", "opacity", ":", "1", ";">>
PartStyleClose == <<"</style", ">">>
PartFillOpacity == <<" ", "fill-", "opacity", "=", "\"", "1", "\"">>

SvgParts ==
  {PartSvgOpen, PartTagClose, PartSize, PartOpacity, PartXmlns, PartStyleAttr,
   PartPrologOpen, PartPrologClose, PartStyleRule, PartStyleClose,
   PartFillOpacity}

RECURSIVE Concat(_)
Concat(parts) == IF parts = << >> THEN << >> ELSE Head(parts) \o Concat(Tail(parts))

SvgTexts == {Concat(parts) : parts \in SeqsUpTo(SvgParts, MaxParts)}

InitSvg ==
  /\ IdleProcs
  /\ FreshBuildTree
  /\ srcIllustrations = IllustrationSources
  /\ srcChapters = [f \in ChapterNames |-> ChapterSource(f)]
  /\ chapterConfig = << >>
  /\ fetchedChildren = << >>
  /\ children = << >>
  /\ treeLoaded = FALSE
  /\ \E text \in SvgTexts : svgContents = <<text>>
  /\ chapter = [file |-> chapterFiles[1], content |-> ChapterSource(chapterFiles[1])]
  /\ stagedChapter = << >>
  /\ NoRequests

\* const optimizedContent = optimizeSvgForEpub(svgContent), written back
OptimizeSvg ==
  /\ Len(svgContents) <= MaxPasses
  /\ svgContents' = Append(svgContents, optimizeSvgForEpub(svgContents[Len(svgContents)]))
  /\ UNCHANGED <<procVars, srcVars, fsVars, treeVars, chapter, stagedChapter, uiVars>>

NextSvg == OptimizeSvg

SpecSvg == InitSvg /\ [][NextSvg]_vars

(***************************************************************************)
(* The path rewriting on its own: a chapter text over the symbols of the   *)
(* asset reference, staged for either kind of build.                       *)
(***************************************************************************)
MaxText == 10

TextSymbols == {".", "/", "illustrations"}

ChapterTexts == SeqsUpTo(TextSymbols, MaxText)

InitText ==
  /\ IdleProcs
  /\ FreshBuildTree
  /\ srcIllustrations = IllustrationSources
  /\ srcChapters = [f \in ChapterNames |-> ChapterSource(f)]
  /\ chapterConfig = << >>
  /\ fetchedChildren = << >>
  /\ children = << >>
  /\ treeLoaded = FALSE
  /\ svgContents = <<SvgSource("fig.svg")>>
  /\ \E text \in ChapterTexts : chapter = [file |-> chapterFiles[1], content |-> text]
  /\ stagedChapter = << >>
  /\ NoRequests

\* const destPath = path.join(tempChaptersDir, file)
destPath(file) == file

\* One turn of the staging forEach: read, replace, write under destPath.
StageChapter(k) ==
  /\ k \notin DOMAIN stagedChapter
  /\ stagedChapter' =
       [j \in DOMAIN stagedChapter \cup {k} |->
          IF j = k
          THEN [file |-> destPath(chapter.file), content |-> Rewrite(k, chapter.content)]
          ELSE stagedChapter[j]]
  /\ UNCHANGED <<procVars, srcVars, fsVars, treeVars, svgContents, chapter, uiVars>>

StageForEpub == StageChapter("epub")

StageForPdf == StageChapter("pdf")

NextText == StageForEpub \/ StageForPdf

SpecText == InitText /\ [][NextText]_vars

(***************************************************************************)
(* The admin page: the build buttons and buildBook(scriptName).            *)
(***************************************************************************)
MaxRequests == 3

\* buildBook('build'), buildBook('epub'), buildBook('pdf')
ScriptNames == {"build", "epub", "pdf"}

InitAdmin ==
  /\ IdleProcs
  /\ FreshBuildTree
  /\ srcIllustrations = IllustrationSources
  /\ srcChapters = [f \in ChapterNames |-> ChapterSource(f)]
  /\ chapterConfig \in BuildConfigs
  /\ fetchedChildren = [i \in 1..Len(chapterFiles) |-> FileObject(chapterFiles[i])]
  /\ children = fetchedChildren
  /\ treeLoaded = FALSE
  /\ SourceTexts
  /\ NoRequests

\* A click on a build button: buildBook runs up to its await fetch(...), the
\* POST /api/admin/build/<scriptName> is on its way.
buildBook(scriptName) ==
  /\ Len(requests) < MaxRequests
  /\ message' = "info"
  /\ requests' = Append(requests, [scriptName |-> scriptName, state |-> "pending"])
  /\ UNCHANGED <<procVars, srcVars, fsVars, treeVars, textVars>>

\* The response arrives and buildBook goes on: success message and
\* loadFileTree(), or the failure message.
BuildResponse(i, ok) ==
  /\ i \in 1..Len(requests)
  /\ requests[i].state = "pending"
  /\ requests' = [requests EXCEPT ![i].state = IF ok THEN "success" ELSE "failed"]
  /\ message' = IF ok THEN "success" ELSE "error"
  /\ IF ok
     THEN /\ children' = reorderChapters(fetchedChildren, chapterConfig)
          /\ fetchedChildren' = chapterFilesAfter(fetchedChildren, chapterConfig)
          /\ treeLoaded' = TRUE
     ELSE UNCHANGED treeVars
  /\ UNCHANGED <<procVars, srcVars, fsVars, textVars>>

NextAdmin ==
  \/ \E scriptName \in ScriptNames : buildBook(scriptName)
  \/ \E i \in 1..MaxRequests : \E ok \in BOOLEAN : BuildResponse(i, ok)

SpecAdmin == InitAdmin /\ [][NextAdmin]_vars

(***************************************************************************)
(* Builds run one after another by one author, who deletes source          *)
(* illustrations in the editor between two builds.                         *)
(***************************************************************************)
Author == "p1"

\* fs.unlinkSync on the server side of DELETE /api/file/src/<filePath>.
RemoveFile(dir, name) ==
  [dir EXCEPT !.files = [n \in (DOMAIN dir.files) \ {name} |-> dir.files[n]]]

InitEdit ==
  /\ IdleProcs
  /\ FreshBuildTree
  /\ srcIllustrations = IllustrationSources
  /\ srcChapters = [f \in ChapterNames |-> ChapterSource(f)]
  /\ chapterConfig = << >>
  /\ fetchedChildren = [i \in 1..Len(chapterFiles) |-> FileObject(chapterFiles[i])]
  /\ children = fetchedChildren
  /\ treeLoaded = FALSE
  /\ SourceTexts
  /\ NoRequests

\* deleteFileAtPath('illustrations/<file>') while no build is running: the
\* DELETE request, then the message and, on success, loadFileTree().
deleteFileAtPath(file, ok) ==
  /\ \A p \in Procs : pc[p] \in {"idle", "exited"}
  /\ srcIllustrations.exists
  /\ file \in DOMAIN srcIllustrations.files
  /\ IF ok
     THEN /\ srcIllustrations' = RemoveFile(srcIllustrations, file)
          /\ message' = "success"
          /\ children' = reorderChapters(fetchedChildren, chapterConfig)
          /\ fetchedChildren' = chapterFilesAfter(fetchedChildren, chapterConfig)
          /\ treeLoaded' = TRUE
     ELSE /\ message' = "error"
          /\ UNCHANGED <<srcIllustrations, treeVars>>
  /\ UNCHANGED <<procVars, srcChapters, chapterConfig, fsVars, textVars, requests>>

NextEdit ==
  \/ \E k \in Kinds : Start(Author, k)
  \/ MkdirBuild(Author)
  \/ MkdirIllustrations(Author)
  \/ ReadIllustrations(Author)
  \/ CopyIllustration(Author)
  \/ OptimizeIllustration(Author)
  \/ MkdirTemp(Author)
  \/ RewriteChapter(Author)
  \/ \E result \in ConverterResults : Pandoc(Author, result)
  \/ \E result \in ConverterResults : Wkhtmltopdf(Author, result)
  \/ Catch(Author)
  \/ FinallyCheck(Author)
  \/ FinallyRm(Author)
  \/ \E file \in DOMAIN IllustrationSources.files : \E ok \in BOOLEAN :
       deleteFileAtPath(file, ok)

SpecEdit == InitEdit /\ [][NextEdit]_vars

(***************************************************************************)
(* Properties of the build scripts (specification Spec).                   *)
(***************************************************************************)
Ended(p) == pc[p] = "exited"

Staged(p) == kind[p] \in {"epub", "pdf"}

ConverterFailed(p) == \E i \in 1..Len(invoked[p]) : invoked[p][i].result # "ok"

Failed(p) == thrownAt[p] # "none" \/ ConverterFailed(p)

\* C1: every EPUB or PDF build that reached the converter stage has, once it
\* has ended, removed its temporary chapter directory exactly once and the
\* directory does not exist, whether the converters exited zero or not.
C1_TempDirRemovedOnce ==
  \A p \in Procs :
    (Ended(p) /\ Staged(p) /\ invoked[p] # << >>)
      => (rmCount[p] = 1 /\ ~tempChapters[kind[p]].exists)

\* C2: a build whose chapter staging failed after the temporary chapter
\* directory was created has removed that directory by the time it ends.
C2_TempDirRemovedAfterStagingFailure ==
  \A p \in Procs :
    (Ended(p) /\ Staged(p) /\ thrownAt[p] = "rewrite")
      => ~tempChapters[kind[p]].exists

C5_StageAFailureSkipsStageB ==
  \A p \in Procs :
    (kind[p] \in {"pdf", "pdf0"} /\ invoked[p] # << >> /\ invoked[p][1].result # "ok")
      => (Len(invoked[p]) = 1 /\ PdfOutput \notin written[p])

C5_Witness ==
  \E p \in Procs :
    /\ Ended(p)
    /\ kind[p] = "pdf"
    /\ Len(invoked[p]) = 1
    /\ invoked[p][1].tool = "pandoc"
    /\ invoked[p][1].result = "nonzero"

\* The chapter paths of a converter command line, and the order the
\* resequencer gives the compiled-in chapters under the current configuration.
ChapterInputs(call) == SubSeq(call.inputs, 3, Len(call.inputs))

ResequencedOrder ==
  LET ordered == reorderChapters([i \in 1..Len(chapterFiles) |-> FileObject(chapterFiles[i])],
                                 chapterConfig)
  IN [i \in 1..Len(ordered) |->
        CHOOSE f \in ChapterNames : FileObject(f).path = ordered[i].path]

BaseNames(paths) == [i \in 1..Len(paths) |-> paths[i][Len(paths[i])]]

Canonical == SelectSeq(fetchedChildren, LAMBDA f : f.type = "file")

CanonicalNames == {Canonical[i].name : i \in 1..Len(Canonical)}

ConfiguredNames == {chapterConfig[i].file : i \in 1..Len(chapterConfig)}

\* C6: the output of reorderChapters has exactly as many entries as the
\* canonical chapter list.
C6_OutputLengthIsCanonical ==
  treeLoaded => Len(children) = Len(Canonical)

\* C7: every output entry is one file of the canonical list and no canonical
\* file is emitted twice.
C7_OutputEntriesAreCanonical ==
  treeLoaded =>
    /\ \A i \in 1..Len(children) :
         /\ "path" \in DOMAIN children[i]
         /\ \E j \in 1..Len(Canonical) : children[i].path = Canonical[j].path
    /\ \A i, j \in 1..Len(children) :
         (i # j /\ "path" \in DOMAIN children[i] /\ "path" \in DOMAIN children[j])
           => children[i].path # children[j].path

\* The canonical files the ordering configuration does not name.
Omitted == SelectSeq(Canonical, LAMBDA f : f.name \notin ConfiguredNames)

\* C8: the canonical files the configuration omits are the last entries of
\* the output, each once, in their canonical relative order.
C8_OmittedAppendedInOrder ==
  treeLoaded =>
    LET n == Len(children)
        m == Len(Omitted)
    IN /\ m <= n
       /\ SubSeq(children, n - m + 1, n) = Omitted
       /\ \A i \in 1..(n - m) : \A j \in 1..m :
            "path" \in DOMAIN children[i] => children[i].path # Omitted[j].path

\* The file object of a canonical name.
CanonicalFile(name) == Canonical[CHOOSE i \in 1..Len(Canonical) : Canonical[i].name = name]

\* The output holds, in configuration order, one entry for each of the given
\* configuration entries: the file's object with the name set to the title.
EmittedInOrder(entries) ==
  \E pos \in [entries -> 1..Len(children)] :
    /\ \A i, j \in entries : i < j => pos[i] < pos[j]
    /\ \A j \in entries :
         children[pos[j]] =
           [CanonicalFile(chapterConfig[j].file) EXCEPT !.name = chapterConfig[j].title]

UnnamedKeepName ==
  \A i \in 1..Len(Omitted) : \E j \in 1..Len(children) : children[j] = Omitted[i]

Scenario1 ==
  (/\ fetchedChildren = <<FileObject("a.md"), FileObject("b.md"), FileObject("c.md")>>
   /\ chapterConfig = <<[title |-> "B", file |-> "b.md"]>>)
    => children = << [FileObject("b.md") EXCEPT !.name = "B"],
                     FileObject("a.md"), FileObject("c.md") >>

C11_OrderingInputsOnlyRead ==
  [][/\ chapterConfig' = chapterConfig
     /\ fetchedChildren' = fetchedChildren]_vars

C11_Witness ==
  /\ treeLoaded
  /\ \E i \in 1..Len(children), j \in 1..Len(chapterConfig), k \in 1..Len(fetchedChildren) :
       /\ children[i].name = chapterConfig[j].title
       /\ fetchedChildren[k].name = chapterConfig[j].file
       /\ fetchedChildren[k].type = "file"

(***************************************************************************)
(* C12 - C16.  optimizeSvgForEpub.                                         *)
(***************************************************************************)
Sanitized == Len(svgContents) >= 2

svgInput == svgContents[1]

svgOutput == svgContents[2]

\* C12: sanitizing a sanitized text changes nothing:
\* optimizeSvgForEpub(optimizeSvgForEpub(s)) = optimizeSvgForEpub(s).
C12_SanitizerIdempotent ==
  Len(svgContents) >= 3 => svgContents[3] = svgContents[2]

\* C13: after optimizeSvgForEpub the output contains no opacity token
\* anywhere: every opacity attribute and every opacity property of a style
\* block is removed.
C13_NoOpacityLeft ==
  Sanitized => ~Includes(svgOutput, <<"opacity">>)

\* C14 (as claimed): a text with no <svg root is returned unchanged.
C14_NoRootReturnedUnchanged ==
  (Sanitized /\ ~Includes(svgInput, SvgOpen)) => svgOutput = svgInput

\* C14 (amended): a text with no <svg root gains nothing, neither namespace
\* nor dimensions, and never grows; it is returned unchanged when it holds
\* no <?xml prolog and no opacity either.
C14_NoRootNothingInjected ==
  (Sanitized /\ ~Includes(svgInput, SvgOpen)) =>
    /\ ~Includes(svgOutput, DefaultSize)
    /\ CountFrom(svgOutput, 1, XmlnsAttr) <= CountFrom(svgInput, 1, XmlnsAttr)
    /\ Len(svgOutput) <= Len(svgInput)
    /\ (~Includes(svgInput, <<"<?xml">>) /\ ~Includes(svgInput, <<"opacity">>))
         => svgOutput = svgInput

C14_Witness ==
  /\ Sanitized
  /\ ~Includes(svgInput, SvgOpen)
  /\ Includes(svgInput, PartTagClose \o PartSize)
  /\ Includes(svgInput, PartXmlns)
  /\ svgOutput = svgInput

\* The root element: the first <svg of the text up to the first '>' after it.
RootStart(text) == FirstIn(text, 1, {"<svg"})

RootEnd(text) == IF RootStart(text) = 0 THEN 0 ELSE FirstIn(text, RootStart(text) + 1, {">"})

\* The text starts as an SVG document does: nothing or one complete XML
\* prolog, then the root tag, an <svg closed by '>' with no other tag or
\* instruction opening or closing in between.
HasRoot(text) ==
  /\ RootEnd(text) # 0
  /\ SubSeq(text, 1, RootStart(text) - 1) \in {<< >>, PartPrologOpen \o PartPrologClose}
  /\ \A i \in (RootStart(text) + 1)..(RootEnd(text) - 1) :
       text[i] \notin {"<svg", "<?xml", "<style", "</style", "?"}

RootHasAttr(text, name) ==
  \E i \in (RootStart(text) + 1)..(RootEnd(text) - 2) :
    /\ text[i] = name
    /\ IsWhitespace(text[i - 1])
    /\ text[i + 1] = "="

RootXmlnsCount(text) ==
  Cardinality({i \in (RootStart(text) + 1)..(RootEnd(text) - 1) :
                 \/ MatchesAt(text, i, XmlnsAttr)
                 \/ MatchesAt(text, i, <<"xmlns", "=", "'", "http://www.w3.org/2000/svg", "'">>)})

\* C15: width="400" height="300" is injected into the root <svg> exactly
\* when the root lacks explicit width and height; attributes of other
\* elements do not suppress it, and a root that has both gets no second pair.
C15_SizeInjectedIffRootLacksIt ==
  (Sanitized /\ HasRoot(svgInput)) =>
    /\ (~RootHasAttr(svgInput, "width") /\ ~RootHasAttr(svgInput, "height"))
         => Includes(svgOutput, DefaultSize)
    /\ (RootHasAttr(svgInput, "width") /\ RootHasAttr(svgInput, "height"))
         => ~Includes(svgOutput, DefaultSize)

\* C16: after optimizeSvgForEpub on a text with an <svg root, the root
\* declares the SVG namespace exactly once.
C16_RootDeclaresNamespaceOnce ==
  (Sanitized /\ HasRoot(svgInput)) =>
    /\ HasRoot(svgOutput)
    /\ RootXmlnsCount(svgOutput) = 1

(***************************************************************************)
(* C17, C18.  Staging of the illustrations; the source tree.               *)
(***************************************************************************)
SvgNames == {"fig.svg", "logo.svg"}

\* The copy loop of the process has run to its end.
AssetsStaged(p) ==
  /\ Staged(p)
  /\ \/ pc[p] \in {"optimize", "mkdirTemp", "rewrite", "pandoc", "wkhtmltopdf",
                   "catch", "finally", "rm"}
     \/ pc[p] = "exited" /\ thrownAt[p] \notin {"readdir", "copy"}

\* C17: once the illustrations are staged, build/illustrations exists, holds
\* a file of the same name for every .svg file of src/illustrations, and
\* holds no file of another extension.
C17_EverySvgStagedAndNothingElse ==
  \A p \in Procs :
    AssetsStaged(p) =>
      /\ buildIllustrations.exists
      /\ (DOMAIN srcIllustrations.files) \cap SvgNames \subseteq DOMAIN buildIllustrations.files
      /\ DOMAIN buildIllustrations.files \subseteq SvgNames

C17_Witness ==
  \E p \in Procs :
    /\ AssetsStaged(p)
    /\ pc[p] = "mkdirTemp"
    /\ "notes.txt" \in DOMAIN srcIllustrations.files
    /\ DOMAIN buildIllustrations.files = SvgNames

\* C18: no step of any build writes to the source tree: src/illustrations
\* and src/chapters stay as they are; sanitizing and rewriting write to the
\* staged copies.
C18_SourceTreeNeverWritten ==
  [][/\ srcIllustrations' = srcIllustrations
     /\ srcChapters' = srcChapters]_vars

C18_Witness ==
  \E p \in Procs :
    /\ kind[p] = "epub"
    /\ pc[p] = "pandoc"
    /\ "fig.svg" \in DOMAIN buildIllustrations.files
    /\ buildIllustrations.files["fig.svg"] # srcIllustrations.files["fig.svg"]
    /\ chapterFiles[1] \in DOMAIN tempChapters["epub"].files
    /\ tempChapters["epub"].files[chapterFiles[1]] # srcChapters[chapterFiles[1]]

(***************************************************************************)
(* C19, C20.  The path rewriting.                                          *)
(***************************************************************************)
\* The positions of the text at which the asset pattern starts.
Occurrences(text) == {i \in 1..Len(text) : MatchesAt(text, i, AssetPattern)}

\* What a build must find in front of an occurrence for its replacement to
\* spell the pattern again: '../' before 'illustrations/', '.' before
\* './illustrations/'.
PatternPrefix(k) == IF k = "epub" THEN <<".", ".", "/">> ELSE <<".">>

PrecededByPrefix(text, k) ==
  \E i \in Occurrences(text) : MatchesAt(text, i - Len(PatternPrefix(k)), PatternPrefix(k))

OnePerOccurrence(k) ==
  LET n == Cardinality(Occurrences(chapter.content))
      out == stagedChapter[k].content
  IN /\ Len(out) = Len(chapter.content) - n * (Len(AssetPattern) - Len(TargetForm(k)))
     /\ CountFrom(out, 1, TargetForm(k)) >= n

\* C19 (as claimed): for every chapter text the staged text contains no
\* occurrence of '../illustrations/' and one target-form replacement per
\* occurrence of the pattern in the source.
C19_NoPatternLeft ==
  \A k \in DOMAIN stagedChapter :
    /\ ~Includes(stagedChapter[k].content, AssetPattern)
    /\ OnePerOccurrence(k)

\* C19 (amended): there is one target-form replacement per occurrence of the
\* pattern, and the staged text contains the pattern again exactly when an
\* occurrence of the source is directly preceded by '../' (EPUB) or by '.'
\* (PDF).
C19_NoPatternLeftUnlessPrefixed ==
  \A k \in DOMAIN stagedChapter :
    /\ Includes(stagedChapter[k].content, AssetPattern) <=> PrecededByPrefix(chapter.content, k)
    /\ OnePerOccurrence(k)

C19_Witness ==
  /\ DOMAIN stagedChapter = {"epub", "pdf"}
  /\ Cardinality(Occurrences(chapter.content)) = 2
  /\ ~Includes(stagedChapter["epub"].content, AssetPattern)
  /\ ~Includes(stagedChapter["pdf"].content, AssetPattern)

\* C20: the staged chapter is the source chapter with each occurrence of the
\* pattern replaced by the target form, every other symbol kept, in order,
\* and it is written under the same file name.
C20_OnlyMatchedTokensChange ==
  \A k \in DOMAIN stagedChapter :
    LET in == chapter.content
        out == stagedChapter[k].content
        occ == Occurrences(in)
        shrink == Len(AssetPattern) - Len(TargetForm(k))
        \* where symbol i of the source is found in the staged text
        at(i) == i - Cardinality({o \in occ : o + Len(AssetPattern) <= i}) * shrink
    IN /\ stagedChapter[k].file = chapter.file
       /\ Len(out) = Len(in) - Cardinality(occ) * shrink
       /\ \A i \in 1..Len(in) :
            IF i \in occ
            THEN MatchesAt(out, at(i), TargetForm(k))
            ELSE (\A o \in occ : i < o \/ i >= o + Len(AssetPattern)) => out[at(i)] = in[i]

C20_Witness ==
  /\ DOMAIN stagedChapter = {"epub", "pdf"}
  /\ Cardinality(Occurrences(chapter.content)) = 1
  /\ Len(chapter.content) > Len(AssetPattern) + 2
  /\ chapter.content[1] = "/"
  /\ chapter.content[Len(chapter.content)] = "."
  /\ stagedChapter["epub"].content # chapter.content

(***************************************************************************)
(* C21.  The asset references of the staged chapters.                      *)
(***************************************************************************)
\* The references of a chapter text: what stands between '(' and ')'.
AssetReferences(text) ==
  {SubSeq(text, ij[1] + 1, ij[2] - 1) :
     ij \in {pq \in (1..Len(text)) \X (1..Len(text)) :
               /\ text[pq[1]] = "(" /\ text[pq[2]] = ")" /\ pq[1] < pq[2]
               /\ \A m \in (pq[1] + 1)..(pq[2] - 1) : text[m] # ")"}}

RECURSIVE Segments(_)
Segments(ref) ==
  IF ref = << >> THEN << >>
  ELSE LET s == FirstIn(ref, 1, {"/"})
       IN IF s = 0 THEN <<ref>>
          ELSE <<SubSeq(ref, 1, s - 1)>> \o Segments(SubSeq(ref, s + 1, Len(ref)))

\* The path a relative reference names when looked up from a directory.
RECURSIVE ResolveFrom(_, _)
ResolveFrom(dir, segments) ==
  IF segments = << >> THEN dir
  ELSE LET h == Head(segments)
       IN ResolveFrom(IF h = <<".", ".">>
                      THEN SubSeq(dir, 1, Len(dir) - 1)
                      ELSE IF h = <<".">> \/ h = << >> THEN dir
                      ELSE dir \o h,
                      Tail(segments))

Resolve(dir, ref) == ResolveFrom(dir, Segments(ref))

\* The files under build/: the staged illustrations and the staged chapters.
ExistsInStagingTree(path) ==
  /\ Len(path) = 3
  /\ \/ /\ SubSeq(path, 1, 2) = buildDirPath \o <<"illustrations">>
        /\ buildIllustrations.exists
        /\ path[3] \in DOMAIN buildIllustrations.files
     \/ \E k \in {"epub", "pdf"} :
          /\ SubSeq(path, 1, 2) = tempChaptersDir(k)
          /\ tempChapters[k].exists
          /\ path[3] \in DOMAIN tempChapters[k].files

AtStageA(p) == Staged(p) /\ pc[p] = "pandoc"

\* C21 (as claimed): when the Stage A converter is invoked, every asset
\* reference of every staged chapter resolves, relative to the directory
\* the chapter is staged in, to a file of the staging tree.
C21_ReferencesResolveFromStagedChapter ==
  \A p \in Procs :
    AtStageA(p) =>
      \A f \in DOMAIN tempChapters[kind[p]].files :
        \A ref \in AssetReferences(tempChapters[kind[p]].files[f]) :
          ExistsInStagingTree(Resolve(tempChaptersDir(kind[p]), ref))

\* C21 (amended): when the Stage A converter is invoked, every asset
\* reference of every staged chapter resolves, relative to the resource
\* path given to the converter (build/), to a file of the staging tree.
C21_ReferencesResolveFromResourcePath ==
  \A p \in Procs :
    AtStageA(p) =>
      \A f \in DOMAIN tempChapters[kind[p]].files :
        \A ref \in AssetReferences(tempChapters[kind[p]].files[f]) :
          ExistsInStagingTree(Resolve(resourcePath, ref))

C21_Witness ==
  \E p \in Procs :
    /\ AtStageA(p)
    /\ kind[p] = "pdf"
    /\ chapterFiles[1] \in DOMAIN tempChapters["pdf"].files
    /\ <<".", "/", "illustrations", "/", "fig.svg">>
         \in AssetReferences(tempChapters["pdf"].files[chapterFiles[1]])
    /\ "fig.svg" \in DOMAIN buildIllustrations.files

(***************************************************************************)
(* C22, C24.  The staging directories of overlapping and of ended builds.  *)
(***************************************************************************)
\* C22: the staging directory belongs to one build: what a build has staged
\* and not yet compiled is never removed by the teardown of another build,
\* so at the moment the converter is invoked every staged chapter is there.
C22_StagedChaptersSurviveUntilCompiled ==
  \A p \in Procs :
    (Staged(p) /\ pc[p] = "pandoc") => InputsReadable(kind[p])

\* C24: after a build has ended, with no other build started, neither the
\* chapter copies nor the illustration copies it staged remain on disk.
C24_NothingStagedRemains ==
  \A p \in Procs :
    (Staged(p) /\ Ended(p) /\ \A q \in Procs \ {p} : pc[q] = "idle") =>
      /\ DOMAIN tempChapters[kind[p]].files = {}
      /\ DOMAIN buildIllustrations.files = {}

(***************************************************************************)
(* C23.  Build requests in flight.                                         *)
(***************************************************************************)
Pending == {i \in 1..Len(requests) : requests[i].state = "pending"}

\* C23: at most one build request is pending at any time; a build trigger
\* while a request is pending does not start a second one.
C23_AtMostOneRequestPending == Cardinality(Pending) <= 1

(***************************************************************************)
(* C25.  The order of the stages within one build.                         *)
(***************************************************************************)
Did(p, op, file) == [op |-> op, file |-> file] \in performed[p]

DidSome(p, op) == \E x \in performed[p] : x.op = op

SourceSvgs == (DOMAIN srcIllustrations.files) \cap SvgNames

AllCopied(p) == \A n \in SourceSvgs : Did(p, "copy", n)

AllSanitized(p) == kind[p] = "epub" => \A n \in SourceSvgs : Did(p, "optimize", n)

AllRewritten(p) == \A f \in ChapterNames : Did(p, "rewrite", f)

C26_PdfBuildStagesSourceSvgs ==
  \A p \in Procs :
    (kind[p] = "pdf" /\ AssetsStaged(p)) =>
      /\ ~DidSome(p, "optimize")
      /\ \A n \in DOMAIN buildIllustrations.files :
           buildIllustrations.files[n] = srcIllustrations.files[n]

\* The staging directories of the builds.
StagingDirs == {tempChaptersDir(k) : k \in {"epub", "pdf"}}

\* C27: in every Stage A invocation the positional inputs are the metadata
\* file, the book preamble, then one staged chapter path per canonical
\* chapter, each once, in a staging directory, never the source chapter.
C27_InputsAreStagedChapters ==
  \A p \in Procs : \A i \in 1..Len(invoked[p]) :
    invoked[p][i].tool = "pandoc" =>
      LET inputs == invoked[p][i].inputs
      IN /\ Len(inputs) = 2 + Len(chapterFiles)
         /\ inputs[1] = metadataFile
         /\ inputs[2] = bookFile
         /\ \E dir \in StagingDirs :
              \A j \in 1..Len(chapterFiles) : inputs[2 + j] = dir \o <<chapterFiles[j]>>

\* C30: when an EPUB build invokes its converter, every SVG of the staged
\* illustrations directory is in sanitized form, whatever PDF build runs
\* at the same time.
C30_SvgsSanitizedAtEpubConverter ==
  \A p \in Procs :
    (/\ kind[p] = "epub" /\ pc[p] = "pandoc"
     /\ \A q \in Procs \ {p} : kind[q] = "pdf" /\ pc[q] # "idle") =>
      \A n \in DOMAIN buildIllustrations.files :
        buildIllustrations.files[n] = optimizeSvgForEpub(srcIllustrations.files[n])

(***************************************************************************)
(* C28.  Attributes whose name ends in opacity.                            *)
(***************************************************************************)
FillOpacityAttr == <<"fill-", "opacity", "=", "\"", "1", "\"">>

RootTag(text) == SubSeq(text, RootStart(text), RootEnd(text))

\* C28: optimizeSvgForEpub removes only attributes named exactly opacity:
\* every fill-opacity="1" of the root tag of the input is present and
\* intact in the output.
C28_FillOpacityIntact ==
  (Sanitized /\ HasRoot(svgInput)) =>
    CountFrom(svgOutput, 1, FillOpacityAttr)
      >= CountFrom(RootTag(svgInput), 1, FillOpacityAttr)

(***************************************************************************)
(* C29.  Staged illustrations across builds.                               *)
(***************************************************************************)
SourceSvgNames ==
  {n \in DOMAIN srcIllustrations.files : ExtName(n) = ".svg"}

\* C29: in a build whose copy loop has run to its end, build/illustrations
\* holds exactly the .svg files src/illustrations holds: an SVG staged by an
\* earlier build and deleted from the source since is gone.
C29_StagedAreExactlySourceSvgs ==
  \A p \in Procs :
    (AssetsStaged(p) /\ pc[p] # "exited") =>
      DOMAIN buildIllustrations.files = SourceSvgNames

====
